---- MODULE Spec2Model ----
(***************************************************************************)
(* OpenMate: the window-selection command of openmate.py.                  *)
(*                                                                         *)
(* A path is a Python str, modelled as a sequence of one-character         *)
(* strings, so that rstrip, dirname, split and startswith are computed on  *)
(* characters as the code computes them.                                   *)
(***************************************************************************)
EXTENDS Naturals, Integers, Sequences, FiniteSets, TLC

VARIABLES
    windows,                        \* sublime.windows(): the windows, in snapshot order
    active,                         \* sublime.active_window().id(); 0 when there is no window
    single_orphan_window,           \* setting "single-orphan-window"
    orphan_sibling_opens_folder,    \* setting "orphan-sibling-opens-folder"
    never_implicitly_open_folders,  \* setting "never-implicitly-open-folders"
    ncalls,                         \* the calls of OpenMateCommand.run made so far
    last,                           \* the last call of OpenMateCommand.run: its argument, the
                                    \* state it started from, and what it did
    pa, pb,                         \* the two str arguments of a pure path function
    out                             \* the result of the pure path function applied to pa, pb

vars == <<windows, active, single_orphan_window, orphan_sibling_opens_folder,
          never_implicitly_open_folders, ncalls, last, pa, pb, out>>

-----------------------------------------------------------------------------
(* Bounds *)

\* longest str drawn as an argument of the pure path functions
MaxPathLen == 4
\* most calls of the command in one session
MaxCalls == 2

-----------------------------------------------------------------------------
(* str operations *)

\* os.path.sep
sep == "/"

Chars == {sep, "a", "b"}

\* str.startswith
StartsWith(s, t) == Len(t) <= Len(s) /\ SubSeq(s, 1, Len(t)) = t

\* str.rstrip(os.path.sep)
RECURSIVE RStrip(_)
RStrip(s) ==
    IF s # <<>> /\ s[Len(s)] = sep THEN RStrip(SubSeq(s, 1, Len(s) - 1)) ELSE s

\* str.rfind(sep) + 1: the position after the last separator, 0 when there is none
RECURSIVE RFind(_, _)
RFind(s, i) == IF i = 0 THEN 0 ELSE IF s[i] = sep THEN i ELSE RFind(s, i - 1)

\* the str made of separators only ('/' * len(head))
AllSep(s) == \A i \in 1..Len(s) : s[i] = sep

\* os.path.dirname (posixpath)
Dirname(p) ==
    LET head == SubSeq(p, 1, RFind(p, Len(p)))
    IN  IF head # <<>> /\ ~AllSep(head) THEN RStrip(head) ELSE head

\* str.split(os.path.sep): never empty; "" splits to [""]
RECURSIVE Split(_)
Split(s) ==
    LET i == RFind(s, Len(s))
    IN  IF i = 0 THEN <<s>>
        ELSE Append(Split(SubSeq(s, 1, i - 1)), SubSeq(s, i + 1, Len(s)))

\* a list slice xs[:n]
Take(xs, n) == SubSeq(xs, 1, IF n < Len(xs) THEN n ELSE Len(xs))

\* the for loop of path_distance: the value prefix_len is left with
RECURSIVE PrefixLoop(_, _, _)
PrefixLoop(a_parts, b_parts, prefix_len) ==
    IF Take(a_parts, prefix_len + 1) # Take(b_parts, prefix_len + 1) THEN prefix_len
    ELSE IF prefix_len = Len(a_parts) THEN prefix_len
    ELSE PrefixLoop(a_parts, b_parts, prefix_len + 1)

\* the loop started at prefix_len = 1 instead of 0
PrefixLoopFromOne(a_parts, b_parts, prefix_len) ==
    IF prefix_len = 0 THEN PrefixLoop(a_parts, b_parts, 1)
    ELSE PrefixLoop(a_parts, b_parts, prefix_len)

PrefixLen(a_parts, b_parts, prefix_len) == PrefixLoop(a_parts, b_parts, prefix_len)

\* OpenMateCommand.path_distance
path_distance(a, b) ==
    LET as == Split(a)
        bs == Split(b)
        a_parts == IF Len(as) > Len(bs) THEN bs ELSE as
        b_parts == IF Len(as) > Len(bs) THEN as ELSE bs
    IN  Len(a_parts) + Len(b_parts) - 2 * PrefixLen(a_parts, b_parts, 0)

\* the prefix match without the trailing separators
PlainPrefix(path, folder) == StartsWith(path, folder)

\* the prefix match of a folder-having window:
\* (path + os.path.sep).startswith(folder + os.path.sep)
prefix_match(path, folder) == StartsWith(path \o <<sep>>, folder \o <<sep>>)

-----------------------------------------------------------------------------
(* The file system the command probes (os.path.isdir, os.walk) *)

\* the characters of the paths below, in code-point order (the order of sorted())
Alphabet == <<"/", "c", "d", "e", "l", "m", "o", "p", "r", "s", "t", "u",
              "w", "x", "y", "z", "~">>

Ord(c) == CHOOSE i \in 1..Len(Alphabet) : Alphabet[i] = c

\* str < str
RECURSIVE StrLess(_, _)
StrLess(s, t) ==
    IF t = <<>> THEN FALSE
    ELSE IF s = <<>> THEN TRUE
    ELSE IF s[1] = t[1] THEN StrLess(Tail(s), Tail(t))
    ELSE Ord(s[1]) < Ord(t[1])

\* sorted(): a set of str as the ascending list
RECURSIVE Sorted(_)
Sorted(S) ==
    IF S = {} THEN <<>>
    ELSE LET m == CHOOSE x \in S : \A y \in S \ {x} : StrLess(x, y)
         IN  <<m>> \o Sorted(S \ {m})

\* os.path.join(root, filename) for a relative filename
Join(root, name) ==
    IF root = <<>> \/ root[Len(root)] = sep THEN root \o name ELSE root \o <<sep>> \o name

d_dir == <<"/", "d">>
ds_dir == <<"/", "d", "/", "s">>
e_dir == <<"/", "e">>
dx_file == <<"/", "d", "/", "x">>
dy_file == <<"/", "d", "/", "y">>
dsz_file == <<"/", "d", "/", "s", "/", "z">>
ew_file == <<"/", "e", "/", "w">>

\* the directories of the disk: their sub-directories (in the order os.walk
\* lists them) and the names of their files
Listing ==
    (<<"/">> :> [dirs |-> << <<"d">>, <<"e">> >>, files |-> {}]) @@
    (d_dir   :> [dirs |-> << <<"s">> >>, files |-> {<<"y">>, <<"x">>}]) @@
    (ds_dir  :> [dirs |-> <<>>, files |-> {<<"z">>}]) @@
    (e_dir   :> [dirs |-> <<>>, files |-> {<<"w">>}])

\* os.path.isdir: false for a path that does not exist
isdir(path) == path \in DOMAIN Listing

\* os.walk(top), top-down: the (root, files) pairs in the order they are yielded
RECURSIVE walk(_)
RECURSIVE walk_dirs(_, _)
walk(top) ==
    IF ~isdir(top) THEN <<>>
    ELSE <<[root |-> top, files |-> Listing[top].files]>> \o
         walk_dirs(top, Listing[top].dirs)
walk_dirs(top, dirs) ==
    IF dirs = <<>> THEN <<>>
    ELSE walk(Join(top, Head(dirs))) \o walk_dirs(top, Tail(dirs))

\* $HOME, which os.path.expanduser substitutes for "~"
HOME == d_dir

\* os.path.expanduser (posixpath); no other user's home is known
expanduser(p) ==
    IF ~StartsWith(p, <<"~">>) THEN p
    ELSE LET slashes == {i \in 2..Len(p) : p[i] = sep}
             i == IF slashes = {} THEN Len(p) + 1
                  ELSE CHOOSE j \in slashes : \A k \in slashes : j <= k
             res == RStrip(HOME) \o SubSeq(p, i, Len(p))
         IN  IF i # 2 THEN p ELSE IF res = <<>> THEN <<sep>> ELSE res

\* os.path.expanduser(p) as run applies it to each configured folder
expand(p) == expanduser(p)

\* the default of "never-implicitly-open-folders"
DefaultNever ==
    << <<"~">>, <<"/">>, <<"/", "e", "t", "c">>, <<"/", "t", "m", "p">>,
       <<"/", "u", "s", "r">>,
       <<"/", "u", "s", "r", "/", "l", "o", "c", "a", "l">> >>

-----------------------------------------------------------------------------
(* The editor: windows, their folders and their views *)

\* A window is [id, folders, views, untitled]: win.id(), win.folders() in order,
\* the file_name() of its views that have one, and whether it also holds a view
\* whose file_name() is None (an unsaved buffer).

\* one entry of the log of editor calls a run makes
Call(op, win, arg) == [op |-> op, win |-> win, arg |-> arg]

\* win.find_open_file(path): whether the window has a view of the file
find_open_file(win, path) == path \in win.views

\* win.open_file(path): a view of the file, the existing one when it has one
open_file(win, path) == [win EXCEPT !.views = @ \cup {path}]

\* win.run_command("close") right after open_file: closes the view just shown
close_view(win, path) == [win EXCEPT !.views = @ \ {path}]

\* proj = win.project_data() or {"folders": []}; proj["folders"].append({"path": p});
\* win.set_project_data(proj)
add_folder(win, p) == [win EXCEPT !.folders = Append(@, p)]

\* sort_key with the two lower priorities exchanged
sort_key_orphans_first(win, active_id) ==
    IF win.id = active_id THEN 0 ELSE IF win.folders # <<>> THEN 2 ELSE 1

\* run.sort_key: 0 the current window, 1 a window with folders, 2 an orphan-file window
sort_key(win, active_id) ==
    IF win.id = active_id THEN 0 ELSE IF win.folders # <<>> THEN 1 ELSE 2

\* sorted(sublime.windows(), key=sort_key); sorted() is stable
window_list(ws, active_id) ==
    LET K(k) == SelectSeq(ws, LAMBDA w : sort_key(w, active_id) = k)
    IN  K(0) \o K(1) \o K(2)

\* the first window of the list with a view of the file, 0 when there is none
first_open_in(wl, path) ==
    LET hits == {i \in 1..Len(wl) : find_open_file(wl[i], path)}
    IN  IF hits = {} THEN 0 ELSE CHOOSE i \in hits : \A j \in hits : i <= j

\* the first priority skipped
never_open_view(wl, path) == 0

\* the loop of the first priority: the position in window_list of the window
\* whose view is focused, 0 when no window has the file open
first_priority(wl, path) == first_open_in(wl, path)

\* the folders an orphan-file window is matched by: sorted dirnames of its views
view_folders(win) == Sorted({Dirname(f) : f \in win.views})

\* match_folders without the test of single_orphan_window
orphan_folders_always(win, single) ==
    IF win.folders # <<>>
    THEN [raised |-> FALSE, has_folders |-> TRUE, folders |-> win.folders]
    ELSE IF win.untitled
    THEN [raised |-> TRUE, has_folders |-> FALSE, folders |-> <<>>]
    ELSE [raised |-> FALSE, has_folders |-> FALSE, folders |-> view_folders(win)]

\* the head of the second-priority loop body: has_folders and folders of a window.
\* os.path.dirname(view.file_name()) raises TypeError on a view without a file name.
\* With single_orphan_window set, a folder-less window keeps folders = [] and
\* has_folders is left as it was (it is not read: the inner loop has nothing to do).
match_folders(win, single) ==
    IF win.folders # <<>>
    THEN [raised |-> FALSE, has_folders |-> TRUE, folders |-> win.folders]
    ELSE IF ~single
    THEN IF win.untitled
         THEN [raised |-> TRUE, has_folders |-> FALSE, folders |-> <<>>]
         ELSE [raised |-> FALSE, has_folders |-> FALSE, folders |-> view_folders(win)]
    ELSE [raised |-> FALSE, has_folders |-> FALSE, folders |-> <<>>]

\* the condition of the inner loop, for one folder
folder_matches(has_folders, folder, path, its_a_dir, dir_path) ==
    \/ has_folders /\ prefix_match(path, folder)
    \/ ~has_folders /\ its_a_dir /\ StartsWith(folder \o <<sep>>, dir_path \o <<sep>>)
    \/ ~has_folders /\ ~its_a_dir /\ folder = dir_path

\* whether the inner loop finds a matching folder (its body does not read which)
any_folder_matches(mf, path, its_a_dir, dir_path) ==
    \E i \in 1..Len(mf.folders) :
        folder_matches(mf.has_folders, mf.folders[i], path, its_a_dir, dir_path)

\* avoid_implicit_folders
avoid_implicit_folders(never) == {expand(never[i]) : i \in 1..Len(never)}

\* implicit_folder without the setting and the avoid list
always_implicit(has_folders, sibling, never, parent_path) == ~has_folders

\* whether a matched single file adds its parent folder to the window
implicit_folder(has_folders, sibling, never, parent_path) ==
    /\ ~has_folders
    /\ sibling
    /\ parent_path \notin avoid_implicit_folders(never)

\* the for/else over sorted(files) of one walked directory: the first file of it
\* that the window has open, <<>> when none
first_open_file(win, root, files) ==
    LET names == Sorted(files)
        hits == {i \in 1..Len(names) : find_open_file(win, Join(root, names[i]))}
    IN  IF hits = {} THEN <<>>
        ELSE Join(root, names[CHOOSE i \in hits : \A j \in hits : i <= j])

\* peek without the close
peek_left_open(win, file_path) ==
    [win |-> open_file(win, file_path),
     calls |-> <<Call("open_file", win.id, file_path),
                 Call("reveal_in_side_bar", win.id, file_path)>>]

\* files found in folder, but none open: open the first one, reveal, close
peek(win, file_path) ==
    [win |-> close_view(open_file(win, file_path), file_path),
     calls |-> <<Call("open_file", win.id, file_path),
                 Call("reveal_in_side_bar", win.id, file_path),
                 Call("close", win.id, file_path)>>]

\* the loop over os.walk(path), from its k-th directory on, with the flag found
RECURSIVE reveal_loop(_, _, _, _, _)
reveal_loop(w, k, found, win, calls) ==
    IF k > Len(w) THEN [win |-> win, calls |-> calls, found |-> found]
    ELSE LET root == w[k].root
             files == w[k].files
             hit == first_open_file(win, root, files)
         IN  IF hit # <<>>
             THEN [win |-> win, found |-> TRUE,
                   calls |-> calls \o <<Call("focus_view", win.id, hit),
                                        Call("reveal_in_side_bar", win.id, hit)>>]
             ELSE IF found THEN [win |-> win, calls |-> calls, found |-> found]
             ELSE IF files # {}
             THEN LET pk == peek(win, Join(root, Sorted(files)[1]))
                  IN  reveal_loop(w, k + 1, TRUE, pk.win, calls \o pk.calls)
             ELSE reveal_loop(w, k + 1, found, win, calls)

\* the body run on the matching window: the window after it and the calls made
dispatch(win, mf, path, its_a_dir, parent_path, sibling, never) ==
    IF ~its_a_dir
    THEN LET add == implicit_folder(mf.has_folders, sibling, never, parent_path)
             w1 == IF add THEN add_folder(win, parent_path) ELSE win
         IN  [win |-> open_file(w1, path),
              calls |-> (IF add THEN <<Call("set_project_data", win.id, parent_path)>>
                         ELSE <<>>) \o
                        <<Call("open_file", win.id, path),
                          Call("reveal_in_side_bar", win.id, path)>>]
    ELSE IF ~mf.has_folders \/ ~(\E i \in 1..Len(mf.folders) : mf.folders[i] = path)
    THEN [win |-> add_folder(win, path),
          calls |-> <<Call("set_project_data", win.id, path)>>]
    ELSE LET r == reveal_loop(walk(path), 1, FALSE, win, <<>>)
         IN  [win |-> r.win, calls |-> r.calls]

-----------------------------------------------------------------------------
(* OpenMateCommand.run *)

\* ws with the window of win's id replaced by win
put(ws, win) == [i \in 1..Len(ws) |-> IF ws[i].id = win.id THEN win ELSE ws[i]]

\* self.focus(win) when win is not the active window: the window comes to the front
focus_calls(win, active_id) ==
    IF win.id # active_id THEN <<Call("focus", win.id, <<>>)>> ELSE <<>>

\* the outer loop of the second priority, from the i-th window of window_list on:
\* the position of the first matching window, 0 when the loop ends without one,
\* -1 when it raises before it finds one
RECURSIVE second_priority(_, _, _, _, _, _)
second_priority(wl, i, path, its_a_dir, dir_path, single) ==
    IF i > Len(wl) THEN 0
    ELSE LET mf == match_folders(wl[i], single)
         IN  IF mf.raised THEN -1
             ELSE IF any_folder_matches(mf, path, its_a_dir, dir_path) THEN i
             ELSE second_priority(wl, i + 1, path, its_a_dir, dir_path, single)

\* what one call of run does to the editor state (ws, active_id) under the
\* settings: the state after it, the tier that ended it, the window it acted on
\* and the editor calls it made
run(arg, ws, active_id, single, sibling, never) ==
    LET path == RStrip(arg)
        parent_path == Dirname(path)
        its_a_dir == isdir(path)
        dir_path == IF its_a_dir THEN path ELSE parent_path
        wl == window_list(ws, active_id)
        opened == IF its_a_dir THEN 0 ELSE first_priority(wl, path)
        matched == second_priority(wl, 1, path, its_a_dir, dir_path, single)
        folderless == SelectSeq(wl, LAMBDA w : w.folders = <<>>)
        new_id == Len(ws) + 1
    IN  IF opened # 0
        THEN \* first priority, focus already-open view
             [windows |-> ws, active |-> wl[opened].id, tier |-> "open_view",
              win |-> wl[opened].id,
              calls |-> <<Call("focus_view", wl[opened].id, path)>> \o
                        focus_calls(wl[opened], active_id)]
        ELSE IF matched = -1
        THEN \* TypeError out of the second-priority loop: nothing was done
             [windows |-> ws, active |-> active_id, tier |-> "raise", win |-> 0,
              calls |-> <<>>]
        ELSE IF matched # 0
        THEN \* second priority, existing window with folder open
             LET win == wl[matched]
                 d == dispatch(win, match_folders(win, single), path, its_a_dir,
                               parent_path, sibling, never)
             IN  [windows |-> put(ws, d.win), active |-> win.id, tier |-> "folder",
                  win |-> win.id, calls |-> d.calls \o focus_calls(win, active_id)]
        ELSE IF single /\ ~its_a_dir /\ folderless # <<>>
        THEN \* not already open, open in first no-folder window
             LET win == folderless[1]
             IN  [windows |-> put(ws, open_file(win, path)), active |-> win.id,
                  tier |-> "orphan", win |-> win.id,
                  calls |-> <<Call("open_file", win.id, path)>> \o
                            focus_calls(win, active_id)]
        ELSE \* no appropriate window found, make a new one
             LET win == [id |-> new_id, folders |-> <<>>, views |-> {},
                         untitled |-> FALSE]
             IN  [windows |-> Append(ws, IF its_a_dir THEN add_folder(win, path)
                                         ELSE open_file(win, path)),
                  active |-> new_id, tier |-> "new_window", win |-> new_id,
                  calls |-> <<Call("new_window", new_id, <<>>),
                              IF its_a_dir THEN Call("set_project_data", new_id, path)
                              ELSE Call("open_file", new_id, path)>>]

-----------------------------------------------------------------------------
(* The session: a snapshot of the editor, then calls of the command *)

\* the paths the command is called with
Requests ==
    {dx_file, dy_file, dsz_file, ew_file, d_dir, ds_dir, e_dir, d_dir \o <<sep>>}

\* the windows a session may start with: folder-less ones, with or without
\* an unsaved buffer, and ones with a folder
InitViews == {{}, {dx_file}, {dsz_file}}

InitWindow(i) ==
    {[id |-> i, folders |-> <<>>, views |-> v, untitled |-> u] :
        v \in InitViews, u \in BOOLEAN}
    \cup
    {[id |-> i, folders |-> <<f>>, views |-> v, untitled |-> FALSE] :
        f \in {d_dir, e_dir}, v \in InitViews}

\* the snapshots a session may start from: no window, one window, two windows
InitWindows ==
    {<<>>} \cup {<<w>> : w \in InitWindow(1)}
           \cup {<<w, x>> : w \in InitWindow(1), x \in InitWindow(2)}

NoCall ==
    [arg |-> <<>>, tier |-> "init", win |-> 0, calls |-> <<>>,
     pre_windows |-> <<>>, pre_active |-> 0]

\* the pure path functions are not in use
Idle == /\ pa = <<>>
        /\ pb = <<>>
        /\ out = [op |-> "none", value |-> 0]

Init ==
    /\ windows \in InitWindows
    /\ active \in (IF windows = <<>> THEN {0} ELSE 1..Len(windows))
    /\ single_orphan_window \in BOOLEAN
    /\ orphan_sibling_opens_folder \in BOOLEAN
    /\ never_implicitly_open_folders \in {DefaultNever, <<>>}
    /\ last = NoCall
    /\ ncalls = 0
    /\ Idle

\* sublime.run_command("open_mate", {"path": arg})
Run(arg) ==
    LET r == run(arg, windows, active, single_orphan_window,
                 orphan_sibling_opens_folder, never_implicitly_open_folders)
    IN  /\ ncalls < MaxCalls
        /\ ncalls' = ncalls + 1
        /\ windows' = r.windows
        /\ active' = r.active
        /\ last' = [arg |-> arg, tier |-> r.tier, win |-> r.win, calls |-> r.calls,
                    pre_windows |-> windows, pre_active |-> active]
        /\ UNCHANGED <<single_orphan_window, orphan_sibling_opens_folder,
                       never_implicitly_open_folders, pa, pb, out>>

Next == \E arg \in Requests : Run(arg)

Spec == Init /\ [][Next]_vars

-----------------------------------------------------------------------------
(* The pure path functions, applied to every pair of short strs *)

RECURSIVE Strs(_)
Strs(n) ==
    IF n = 0 THEN {<<>>}
    ELSE LET shorter == Strs(n - 1)
         IN  shorter \cup {Append(s, c) : s \in shorter, c \in Chars}

PathInit ==
    /\ pa \in Strs(MaxPathLen)
    /\ pb \in Strs(MaxPathLen)
    /\ out = [op |-> "none", value |-> 0]
    /\ windows = <<>>
    /\ active = 0
    /\ single_orphan_window = FALSE
    /\ orphan_sibling_opens_folder = TRUE
    /\ never_implicitly_open_folders = DefaultNever
    /\ last = NoCall
    /\ ncalls = 0

Editor == <<windows, active, single_orphan_window, orphan_sibling_opens_folder,
            never_implicitly_open_folders, last, ncalls>>

\* self.path_distance(pa, pb)
Distance ==
    /\ out.op = "none"
    /\ out' = [op |-> "path_distance", value |-> path_distance(pa, pb)]
    /\ UNCHANGED <<pa, pb, Editor>>

\* the prefix match of path pa against folder pb
PrefixMatch ==
    /\ out.op = "none"
    /\ out' = [op |-> "prefix_match", value |-> IF prefix_match(pa, pb) THEN 1 ELSE 0]
    /\ UNCHANGED <<pa, pb, Editor>>

PathNext == Distance \/ PrefixMatch

PathSpec == PathInit /\ [][PathNext]_vars

-----------------------------------------------------------------------------
(* Vocabulary of the properties *)

\* a call of the command has been made; last describes it
Called == last.tier # "init"

\* the requested path, its trailing separators stripped
ReqPath == RStrip(last.arg)
ReqIsDir == isdir(ReqPath)
ReqDir == IF ReqIsDir THEN ReqPath ELSE Dirname(ReqPath)

\* the window of the given id in a snapshot
WinOf(ws, id) == ws[CHOOSE i \in 1..Len(ws) : ws[i].id = id]
PreWin == WinOf(last.pre_windows, last.win)
PostWin == WinOf(windows, last.win)

IsProject(w) == w.folders # <<>>
IsOrphan(w) == w.folders = <<>>

\* ranked order: the current window, then the project windows in snapshot order,
\* then the orphan windows in snapshot order
Ranked(ws, cur) ==
    SelectSeq(ws, LAMBDA w : w.id = cur) \o
    SelectSeq(ws, LAMBDA w : w.id # cur /\ IsProject(w)) \o
    SelectSeq(ws, LAMBDA w : w.id # cur /\ IsOrphan(w))

PreRanked == Ranked(last.pre_windows, last.pre_active)

\* the least element of a non-empty set of numbers
Least(S) == CHOOSE i \in S : \A j \in S : i <= j

\* r is a prefix of t, element by element
IsSegPrefix(r, t) == Len(r) <= Len(t) /\ \A i \in 1..Len(r) : r[i] = t[i]

\* target is root or a descendant of it, by whole path segments
IsUnderOrEqual(root, target) == IsSegPrefix(Split(root), Split(target))

\* the positions in the log of the calls of one operation
CallsOf(op) == {i \in 1..Len(last.calls) : last.calls[i].op = op}

\* the folders of every window are as they were before the call
FoldersUnchanged ==
    /\ Len(windows) = Len(last.pre_windows)
    /\ \A i \in 1..Len(windows) : windows[i].folders = last.pre_windows[i].folders

-----------------------------------------------------------------------------
(* C1 *)

\* the match predicate of the folder-containment step, for one window
MatchesRequest(w) ==
    LET mf == match_folders(w, single_orphan_window)
    IN  ~mf.raised /\ any_folder_matches(mf, ReqPath, ReqIsDir, ReqDir)

MatchingRanks == {k \in 1..Len(PreRanked) : MatchesRequest(PreRanked[k])}

-----------------------------------------------------------------------------
(* C2 *)

OpenRanks == {k \in 1..Len(PreRanked) : ReqPath \in PreRanked[k].views}

\* the same request made again in the state the call left
Again ==
    run(last.arg, windows, active, single_orphan_window,
        orphan_sibling_opens_folder, never_implicitly_open_folders)

\* C2: a call for a file that some window already has open focuses that view in
\* the first such window in ranked order and does nothing else (no view opened,
\* no folder attached, no window created), and the same call made again focuses
\* the same window and again changes no window.
C2_FocusOpenViewOnly ==
    (Called /\ ~ReqIsDir /\ OpenRanks # {}) =>
        /\ last.tier = "open_view"
        /\ last.win = PreRanked[Least(OpenRanks)].id
        /\ last.calls[1] = Call("focus_view", last.win, ReqPath)
        /\ \A i \in 1..Len(last.calls) : /\ last.calls[i].op \in {"focus_view", "focus"}
                                         /\ last.calls[i].win = last.win
        /\ windows = last.pre_windows
        /\ Again.tier = "open_view"
        /\ Again.win = last.win
        /\ Again.windows = windows

\* the file is open in a window that is not current, while the current window
\* has a folder that contains it
C2_Witness ==
    /\ Called
    /\ last.tier = "open_view"
    /\ last.win # last.pre_active
    /\ \E w \in {last.pre_windows[i] : i \in 1..Len(last.pre_windows)} :
           /\ w.id = last.pre_active
           /\ \E i \in 1..Len(w.folders) : IsUnderOrEqual(w.folders[i], ReqPath)

-----------------------------------------------------------------------------
(* C3 *)

\* C3: the containment test of a folder-having window, for folder pb and path
\* pa, is true exactly when the segments of pb are a prefix of the segments of pa.
C3_ContainmentBySegments ==
    (out.op = "prefix_match") =>
        ((out.value = 1) <=> IsSegPrefix(Split(pb), Split(pa)))

\* the folder is a plain string prefix of the path but not a segment prefix
C3_Witness ==
    /\ out.op = "prefix_match"
    /\ out.value = 0
    /\ Len(pb) >= 2
    /\ StartsWith(pa, pb)

-----------------------------------------------------------------------------
(* C4 *)

\* the directories the setting never-implicitly-open-folders names
NeverDirs ==
    {expanduser(never_implicitly_open_folders[i]) :
        i \in 1..Len(never_implicitly_open_folders)}

\* a file request was matched to an orphan window (the sibling rule)
SiblingMatch ==
    /\ Called
    /\ last.tier = "folder"
    /\ ~ReqIsDir
    /\ IsOrphan(PreWin)

\* C4: when a file request matches an orphan window by the sibling rule, the
\* file is opened in that window; its containing directory becomes the window's
\* project folder, before the file is opened, exactly when
\* orphan-sibling-opens-folder is set and the directory is none of the
\* never-implicitly-open folders; otherwise the window stays without folders.
C4_SiblingPromotion ==
    SiblingMatch =>
        /\ Dirname(ReqPath) \in {Dirname(v) : v \in PreWin.views}
        /\ ReqPath \in PostWin.views
        /\ Cardinality(CallsOf("open_file")) = 1
        /\ \A i \in CallsOf("open_file") :
               last.calls[i] = Call("open_file", last.win, ReqPath)
        /\ IF orphan_sibling_opens_folder /\ Dirname(ReqPath) \notin NeverDirs
           THEN /\ PostWin.folders = <<Dirname(ReqPath)>>
                /\ \E i \in CallsOf("set_project_data") :
                       /\ last.calls[i] =
                              Call("set_project_data", last.win, Dirname(ReqPath))
                       /\ \A j \in CallsOf("open_file") : i < j
           ELSE /\ PostWin.folders = <<>>
                /\ CallsOf("set_project_data") = {}

\* a sibling was opened in an orphan window and its directory was attached
C4_Witness ==
    /\ SiblingMatch
    /\ PostWin.folders = <<Dirname(ReqPath)>>
    /\ ReqPath \in PostWin.views

-----------------------------------------------------------------------------
(* C5 *)

\* C5: every call completes with one action on one window: it does not raise,
\* every editor call it makes is on the one window it acts on, that window is
\* an existing one or the one window it creates, and it creates a window only
\* when no earlier tier matched.
C5_TotalSingleTarget ==
    Called =>
        /\ last.tier \in {"open_view", "folder", "orphan", "new_window"}
        /\ \A i \in 1..Len(last.calls) : last.calls[i].win = last.win
        /\ Len(windows) <= Len(last.pre_windows) + 1
        /\ (last.tier = "new_window") <=> (Len(windows) = Len(last.pre_windows) + 1)
        /\ (last.tier = "new_window") =>
               /\ ReqIsDir \/ OpenRanks = {}
               /\ MatchingRanks = {}

-----------------------------------------------------------------------------
(* C6, C7 *)

\* the files of the directory tree under the requested directory
TreeFiles ==
    UNION {{Join(dir, n) : n \in Listing[dir].files} :
               dir \in {x \in DOMAIN Listing : IsUnderOrEqual(ReqPath, x)}}

\* a directory was requested that is already a root folder of the matched window
RootFolderRequest ==
    /\ Called
    /\ last.tier = "folder"
    /\ ReqIsDir
    /\ \E i \in 1..Len(PreWin.folders) : PreWin.folders[i] = ReqPath

\* the open_file and close calls of the log, in order
RECURSIVE OpenCloseCalls(_)
OpenCloseCalls(cs) ==
    IF cs = <<>> THEN <<>>
    ELSE IF Head(cs).op \in {"open_file", "close"}
    THEN <<Head(cs)>> \o OpenCloseCalls(Tail(cs))
    ELSE OpenCloseCalls(Tail(cs))

\* C6: when the requested directory is already a root folder of the matched
\* window, the window has no file of the tree open and the tree holds a file,
\* the call makes exactly one open call followed by exactly one close call on
\* the same file, the window's open files are as before, and no window's
\* folders change.
C6_PeekIsNetNoOp ==
    (RootFolderRequest /\ TreeFiles # {} /\ PreWin.views \cap TreeFiles = {}) =>
        /\ \E f \in TreeFiles :
               OpenCloseCalls(last.calls) =
                   <<Call("open_file", last.win, f), Call("close", last.win, f)>>
        /\ PostWin.views = PreWin.views
        /\ FoldersUnchanged

\* the peek happened in a window that holds other views, on a file of a
\* sub-directory or of the directory itself
C6_Witness ==
    /\ RootFolderRequest
    /\ TreeFiles # {}
    /\ PreWin.views \cap TreeFiles = {}
    /\ PreWin.views # {}
    /\ CallsOf("close") # {}
    /\ PostWin.views = PreWin.views

\* the files of the tree in walk order: directory by directory, sorted within
RECURSIVE WalkOrder(_)
WalkOrder(w) ==
    IF w = <<>> THEN <<>>
    ELSE LET names == Sorted(Head(w).files)
         IN  [i \in 1..Len(names) |-> Join(Head(w).root, names[i])] \o WalkOrder(Tail(w))

\* the first file in walk order that the window had open
FirstOpenInWalk ==
    LET order == WalkOrder(walk(ReqPath))
    IN  order[Least({i \in 1..Len(order) : order[i] \in PreWin.views})]

\* C7: when the requested directory is already a root folder of the matched
\* window and the window has a file of the tree open, the call focuses the
\* first such file in walk order, reveals it, and makes no open call and no
\* close call.
C7_FocusOpenFileOfTree ==
    (RootFolderRequest /\ PreWin.views \cap TreeFiles # {}) =>
        /\ CallsOf("open_file") = {}
        /\ CallsOf("close") = {}
        /\ \E i \in CallsOf("focus_view") :
               last.calls[i] = Call("focus_view", last.win, FirstOpenInWalk)
        /\ Cardinality(CallsOf("focus_view")) = 1

-----------------------------------------------------------------------------
(* C8 *)

PreWindowSet == {last.pre_windows[i] : i \in 1..Len(last.pre_windows)}

OrphanRanks == {k \in 1..Len(PreRanked) : IsOrphan(PreRanked[k])}

\* a file request with no open view that lies under no project window's folder
LooseFileRequest ==
    /\ Called
    /\ ~ReqIsDir
    /\ OpenRanks = {}
    /\ \A w \in PreWindowSet :
           \A i \in 1..Len(w.folders) : ~IsUnderOrEqual(w.folders[i], ReqPath)

\* C8: with single-orphan-window set, an orphan window is never matched in the
\* folder-containment step; a file request with no open view and under no
\* project window's folder is opened in the first orphan window in ranked
\* order when there is one, with no folder attached and no window created;
\* and a window is created for a file only when there is no orphan window.
C8_SingleOrphanWindow ==
    (Called /\ single_orphan_window) =>
        /\ (last.tier = "folder") => IsProject(PreWin)
        /\ LooseFileRequest =>
               IF OrphanRanks # {}
               THEN /\ last.tier = "orphan"
                    /\ last.win = PreRanked[Least(OrphanRanks)].id
                    /\ ReqPath \in PostWin.views
                    /\ CallsOf("set_project_data") = {}
                    /\ FoldersUnchanged
               ELSE last.tier = "new_window"
        /\ (last.tier = "new_window" /\ ~ReqIsDir) => OrphanRanks = {}

\* the file went to the first orphan window although another orphan window
\* holds a file of the same directory
C8_Witness ==
    /\ Called
    /\ single_orphan_window
    /\ last.tier = "orphan"
    /\ \E w \in PreWindowSet :
           /\ w.id # last.win
           /\ IsOrphan(w)
           /\ Dirname(ReqPath) \in {Dirname(v) : v \in w.views}

-----------------------------------------------------------------------------
(* C9 *)

\* the length of the longest common prefix of two lists
CommonPrefix(a, b) ==
    LET n == IF Len(a) < Len(b) THEN Len(a) ELSE Len(b)
        agree == {k \in 0..n : \A i \in 1..k : a[i] = b[i]}
    IN  CHOOSE k \in agree : \A j \in agree : j <= k

\* C9: path_distance(a, b) is len(segments a) + len(segments b) minus twice the
\* length of their longest common segment prefix; it is symmetric, and it is 0
\* exactly when a = b.
C9_DistanceFormula ==
    (out.op = "path_distance") =>
        /\ out.value = Len(Split(pa)) + Len(Split(pb))
                           - 2 * CommonPrefix(Split(pa), Split(pb))
        /\ out.value = path_distance(pb, pa)
        /\ (out.value = 0) <=> (pa = pb)

\* two different paths of different depth that share a directory
C9_Witness ==
    /\ out.op = "path_distance"
    /\ Len(Split(pa)) > Len(Split(pb))
    /\ CommonPrefix(Split(pa), Split(pb)) = 2
    /\ out.value = 3

-----------------------------------------------------------------------------
(* C10 *)

\* the editor state after one more call, from the state st
After(st, arg) ==
    run(arg, st.windows, st.active, single_orphan_window,
        orphan_sibling_opens_folder, never_implicitly_open_folders)

Now == [windows |-> windows, active |-> active]

\* the windows with their root folders and their open files
Shape(st) ==
    [i \in 1..Len(st.windows) |->
        [folders |-> {st.windows[i].folders[j] : j \in 1..Len(st.windows[i].folders)},
         views |-> st.windows[i].views]]

\* f is open in a window that has d as a root folder
OpenUnderRoot(st, f, d) ==
    \E i \in 1..Len(st.windows) :
        /\ f \in st.windows[i].views
        /\ \E j \in 1..Len(st.windows[i].folders) : st.windows[i].folders[j] = d

Before == [windows |-> last.pre_windows, active |-> last.pre_active]

\* the directories that can be requested
DirRequests == {r \in Requests : r = RStrip(r) /\ isdir(r)}

\* C10: when a call has opened a file f that was not open, then for every
\* directory d that is the directory of f or an ancestor of it, opening d next
\* leaves the same windows, root folders and open files as opening d first and
\* f after it would have, from the same starting snapshot; and in both orders f
\* is open in a window that has d as a root folder.
C10_FileFolderOrder ==
    (Called /\ ~ReqIsDir /\ OpenRanks = {}) =>
        \A d \in DirRequests :
            IsUnderOrEqual(d, Dirname(ReqPath)) =>
                LET fd == After(Now, d)
                    df == After(After(Before, d), last.arg)
                IN  /\ Shape(fd) = Shape(df)
                    /\ OpenUnderRoot(fd, ReqPath, d)
                    /\ OpenUnderRoot(df, ReqPath, d)

\* C10 restricted to the sessions that run with the default settings and hold
\* no unsaved buffer: it fails there as well
C10_FileFolderOrderDefaults ==
    (/\ ~single_orphan_window
     /\ orphan_sibling_opens_folder
     /\ never_implicitly_open_folders = DefaultNever
     /\ \A i \in 1..Len(last.pre_windows) : ~last.pre_windows[i].untitled)
    => C10_FileFolderOrder

====
